---- MODULE Spec2Model ----
(***************************************************************************)
(* SmartKrishi backend: the streaming chat orchestrator                    *)
(* (IntegratedChatService, ChatService, AgentAPIService, ReasoningService) *)
(* and the SMS/Telegram fallback coordinator (FallbackService).            *)
(*                                                                         *)
(* Text is modelled as a sequence of tokens, so that concatenation,        *)
(* replacement and the empty string behave as they do for Python str.      *)
(* Coroutines run on one cooperative event loop: an action is the code     *)
(* between two suspension points (await / yield).                          *)
(***************************************************************************)
EXTENDS Integers, Sequences, FiniteSets, TLC

\* ------------------------------------------------------------------ bounds
MaxEvents == 3          \* upstream events delivered in one run
MaxConcEvents == 1      \* the same, when two requests run concurrently
MaxCalls == 2           \* requests started in one run
MaxFaults == 1          \* reasoning-step inserts that fail in one run

\* ------------------------------------------------------- program constants
SafetyLimit == 1000     \* timeout_wrapper: "if count > 1000: break"

None == 0               \* Python None for an id column
Inv == {1, 2}           \* request slots (one coroutine each)
Users == {1, 2}         \* user ids
ChatId == 1             \* the chat the requests address
Texts == {<<"q1">>, <<"q2">>}   \* message texts a client sends
NoText == << >>         \* upload without an accompanying message
Exts == {"pdf", "exe"}  \* lower-cased file extensions a client uploads

Empty == << >>          \* the empty string ""

\* ----------------------------------------------------------------- state
VARIABLES
    chat,        \* the Chat row: exists, user_id, is_deleted, agent_chat_id
    messages,    \* ChatMessage rows in created_at order
    steps,       \* ReasoningStep rows in insertion order
    remoteChats, \* number of chats the remote agent service has created
    nextMsgId,   \* next ChatMessage id
    files,       \* number of UploadedFile rows
    inv,         \* per request slot: the coroutine's locals and position
    evBudget,    \* upstream events that may still be delivered (bound)
    calls,       \* requests started so far (bound)
    faults       \* reasoning-step inserts that failed so far (bound)

svars == <<chat, messages, steps, remoteChats, nextMsgId, files, inv,
           evBudget, calls, faults>>

\* the state of FallbackService and of the User rows it works on
VARIABLES
    users,       \* User rows: the fallback columns
    fsessions,   \* FallbackSession rows; a row's id is its index
    listeners,   \* FallbackService.active_listeners: keys in insertion order
    ltask,       \* per session id: state of the task start_sms_listener made
    checks,      \* NetworkHealthMonitor.network_checks
    smsSent,     \* number of sms_service.send_sms calls
    registered,  \* phones passed to sms_service.register_phone
    fp,          \* per coroutine: position and locals
    lastAct,     \* per user: what the activate_fallback call that completed
                 \* last returned; NoCall once another operation ran
    fcalls,      \* requests started so far (bound)
    probes       \* health probes answered so far (bound)

fvars == <<users, fsessions, listeners, ltask, checks, smsSent, registered,
           fp, lastAct, fcalls, probes>>

\* the state of the HTTP handlers around the two services
VARIABLES
    edit,        \* the edit_message calls so far: how many, and the last one
                 \* (HTTP status, message id, whether the lookup found it)
    lpos,        \* per session id: where its listen_task is suspended
    fmsgs,       \* FallbackMessage rows in insertion order
    smsIn,       \* inbound SMS the gateway has delivered so far (bound)
    fed,         \* per user: every outcome handed to record_network_check,
                 \* oldest first (history of the calls)
    rt,          \* per request slot: the POST /chat/send-stream handler, its
                 \* HTTP status and the SSE frames written so far
    delivered,   \* the SMS the gateway handed out in answer to receive calls,
                 \* each with the session whose listener got it
    dec          \* the stream_message call on a response body: the
                 \* payloads the agent sent, the wire shape, the events yielded

xvars == <<edit, lpos, fmsgs, smsIn, fed, rt, delivered, dec>>

vars == <<svars, fvars, xvars>>

\* ------------------------------------------------- upstream event alphabet
\* StreamingEvent(type, data): val is the field the orchestrator reads
\* (content / response / error); null marks a JSON null in that field.
Ev(t, v, n) == [type |-> t, val |-> v, null |-> n]

UpstreamEvents ==
    { Ev("thinking", Empty, FALSE),
      Ev("end", Empty, FALSE),
      Ev("response_chunk", <<"a">>, FALSE),
      Ev("response_chunk", Empty, TRUE),
      Ev("response", <<"r">>, FALSE),
      Ev("response", Empty, FALSE),
      Ev("error", <<"e">>, FALSE) }

\* AgentAPIService.stream_message: a transport failure becomes one synthetic
\* error event whose text names the failure.
TimeoutText == <<"Request timed out">>
NetworkText == <<"Network error">>
UnexpectedText == <<"Unexpected error">>
TransportFailures == {"timeout", "http", "other"}
FailureText(kind) ==
    IF kind = "timeout" THEN TimeoutText
    ELSE IF kind = "http" THEN NetworkText
    ELSE UnexpectedText

\* variant: the failure is reported as a log event
SyntheticLog(kind) == Ev("log", FailureText(kind), FALSE)

SyntheticError(kind) == Ev("error", FailureText(kind), FALSE)

\* f"I apologize, but an error occurred: {error_message}"
ApologyPrefix == <<"I apologize, but an error occurred: ">>
Apology(error_message) == ApologyPrefix \o error_message

\* ------------------------------------------------------------ the rows
NoChat == [exists |-> FALSE, owner |-> None, agent |-> None]

\* ChatService.get_chat_by_id (no request of this model soft-deletes a chat)
GetChatById(u) == chat.exists /\ chat.owner = u

\* the duplicate check of send_message_stream: a user message of this chat
\* and user with the same content
ExistingUserMessage(msgs, u, t) ==
    \E k \in 1..Len(msgs) :
        /\ msgs[k].chat = ChatId
        /\ msgs[k].role = "user"
        /\ msgs[k].content = t
        /\ msgs[k].user = u

\* SQL NULL in a nullable text column (no client sends this token)
NullText == <<"NULL">>

\* a ChatMessage row as inserted: created_at is the server clock at the
\* insert (rows are inserted one per transaction, so it grows with the id),
\* original_content is NULL, is_edited false; c0 remembers the content the
\* row was created with
NewMessage(id, c, u, role, content) ==
    [id |-> id, chat |-> c, user |-> u, role |-> role, content |-> content,
     at |-> id, original |-> NullText, edited |-> FALSE, c0 |-> content]

\* ChatService.add_message
AddMessage(msgs, id, u, role, content) ==
    Append(msgs, NewMessage(id, ChatId, u, role, content))

\* assistant_message.content = ...; db.commit()
\* variant: the assignment to content is never committed
SetContentUnsaved(msgs, id, c) == msgs

SetContent(msgs, id, c) ==
    [k \in 1..Len(msgs) |->
        IF msgs[k].id = id THEN [msgs[k] EXCEPT !.content = c] ELSE msgs[k]]

ContentOf(msgs, id) ==
    LET k == CHOOSE j \in 1..Len(msgs) : msgs[j].id = id IN msgs[k].content

HasMessage(msgs, id) == \E k \in 1..Len(msgs) : msgs[k].id = id

\* ReasoningService.create_reasoning_step_from_event
ReasoningRow(msg, order, ev) == [msg |-> msg, order |-> order, type |-> ev.type]

\* ------------------------------------------------ the coroutine's locals
Idle ==
    [pc |-> "idle", op |-> "none", user |-> None, text |-> NoText,
     ext |-> "none", agentId |-> None, asst |-> None, acc |-> Empty,
     stepOrder |-> 0, count |-> 0, wire |-> "none", eos |-> FALSE,
     out |-> << >>, base |-> 0, opened |-> FALSE, recv |-> << >>,
     lost |-> 0, fail |-> "none"]

Off == [Idle EXCEPT !.pc = "off"]

\* events the generator yields to its caller
Out(t, v) == [type |-> t, val |-> v]
ServiceError == Out("error", <<"Service error">>)
EnsureError == Out("error", <<"Failed to create agent chat">>)
UploadError == Out("error", <<"File upload error">>)

\* the loop without its "step_order += 1"
StepOrderStuck(n) == n

\* step_order += 1
StepOrderNext(n) == n + 1

\* accumulated_response += chunk_content
OnChunk(acc, chunk_content) == acc \o chunk_content

\* if final_response: accumulated_response = final_response
OnResponse(acc, final_response) ==
    IF final_response # Empty THEN final_response ELSE acc

\* the yield that follows the handling of one event
Forwarded(ev) ==
    IF ev.type \in {"response_chunk", "response", "error"}
    THEN Out(ev.type, ev.val)
    ELSE Out(ev.type, Empty)

\* the content column after one event was handled
ContentAfter(old, acc2, ev) ==
    CASE ev.type = "response_chunk" -> acc2
      [] ev.type = "response" -> IF ev.val # Empty THEN acc2 ELSE old
      [] ev.type = "error" -> Apology(ev.val)
      [] OTHER -> old

AccAfter(acc, ev) ==
    CASE ev.type = "response_chunk" -> OnChunk(acc, ev.val)
      [] ev.type = "response" -> OnResponse(acc, ev.val)
      [] OTHER -> acc

\* stream_message stops reading an NDJSON body after a response line; the
\* orchestrator breaks after an error; timeout_wrapper breaks past the limit
EndsStream(wire, ev, count) ==
    \/ ev.type = "error"
    \/ (wire = "ndjson" /\ ev.type = "response")
    \/ count > SafetyLimit

\* ------------------------------------------------- send_message_stream
\* From "Check if user message already exists" to the opening of the agent
\* stream: reuse or insert the user message, insert the assistant
\* placeholder, start iterating timeout_wrapper().
BeginTurn(i, loc, agent_chat_id) ==
    LET dup == ExistingUserMessage(messages, loc.user, loc.text)
        m1 == IF dup THEN messages
              ELSE AddMessage(messages, nextMsgId, loc.user, "user", loc.text)
        aid == IF dup THEN nextMsgId ELSE nextMsgId + 1
    IN  /\ messages' = AddMessage(m1, aid, loc.user, "assistant", Empty)
        /\ nextMsgId' = aid + 1
        /\ \E w \in {"ndjson", "sse"} :
             inv' = [inv EXCEPT ![i] =
                       [loc EXCEPT !.pc = "stream", !.agentId = agent_chat_id,
                                   !.asst = aid, !.acc = Empty,
                                   !.stepOrder = 0, !.count = 0, !.wire = w,
                                   !.eos = FALSE, !.opened = TRUE]]

\* The entry of send_message_stream up to its first suspension point:
\* get_chat_by_id, then ensure_agent_chat, which returns at once when the
\* chat already has an agent_chat_id and otherwise awaits the remote create.
EnterSend(i, loc) ==
    IF ~GetChatById(loc.user)
    THEN /\ inv' = [inv EXCEPT ![i] =
                      [loc EXCEPT !.pc = "done",
                                  !.out = Append(loc.out, ServiceError)]]
         /\ UNCHANGED <<messages, nextMsgId>>
    ELSE IF chat.agent # None
    THEN BeginTurn(i, loc, chat.agent)
    ELSE /\ inv' = [inv EXCEPT ![i] = [loc EXCEPT !.pc = "ensure"]]
         /\ UNCHANGED <<messages, nextMsgId>>

SendMessageStream(i, u, t) ==
    /\ inv[i].pc = "idle"
    /\ calls < MaxCalls
    /\ calls' = calls + 1
    /\ EnterSend(i, [Idle EXCEPT !.op = "send", !.user = u, !.text = t])
    /\ UNCHANGED <<chat, steps, remoteChats, files, evBudget, faults>>
    /\ UNCHANGED fvars
    /\ UNCHANGED xvars

\* ensure_agent_chat resumes after "await agent_api.create_chat(...)":
\* on success the id is written to the row this request loaded and committed.
EnsureAgentChatWrite(c, newId) == [c EXCEPT !.agent = newId]

EnsureAgentChatReturn(i, ok) ==
    /\ inv[i].pc = "ensure"
    /\ IF ok
       THEN /\ remoteChats' = remoteChats + 1
            /\ chat' = EnsureAgentChatWrite(chat, remoteChats + 1)
            /\ IF inv[i].op = "upload"
               THEN /\ inv' = [inv EXCEPT ![i].pc = "upload",
                                          ![i].agentId = remoteChats + 1]
                    /\ UNCHANGED <<messages, nextMsgId>>
               ELSE BeginTurn(i, inv[i], remoteChats + 1)
       ELSE /\ inv' = [inv EXCEPT ![i].pc = "done",
                         ![i].out = Append(inv[i].out,
                            IF inv[i].op = "upload"
                            THEN UploadError ELSE EnsureError)]
            /\ UNCHANGED <<chat, remoteChats, messages, nextMsgId>>
    /\ UNCHANGED <<steps, files, evBudget, calls, faults>>
    /\ UNCHANGED fvars
    /\ UNCHANGED xvars

\* how create_reasoning_step_from_event ended: the row is stored, the event
\* data was rejected, or the INSERT failed in the database
PersistOutcomes(persistOk) ==
    IF persistOk THEN {"stored"} ELSE {"rejected", "flush"}

\* One iteration of "async for event in timeout_wrapper()": the reasoning
\* step, the dispatch on event.type, the yield of the forwarded event.
\* A reasoning step that is not stored failed either before the session was
\* touched (ReasoningStepCreate rejects the event data) or in the flush of
\* db.commit(). The except clause of the loop swallows both without
\* db.rollback(): after a failed flush the session refuses every further
\* statement, the dispatch raises at its commit or at assistant_message.id,
\* and the outer except yields the service error.
Handle(i, ev, persistOk, kind) ==
    LET loc == inv[i]
        n == StepOrderNext(loc.stepOrder)
        c == loc.count + 1
        acc2 == AccAfter(loc.acc, ev)
        seen == [loc EXCEPT !.stepOrder = n, !.count = c,
                            !.recv = Append(loc.recv, ev),
                            !.lost = IF persistOk THEN loc.lost
                                     ELSE loc.lost + 1,
                            !.fail = IF kind = "none" THEN loc.fail ELSE kind]
    IN  /\ persistOk \/ faults < MaxFaults
        /\ faults' = IF persistOk THEN faults ELSE faults + 1
        /\ steps' = IF persistOk
                    THEN Append(steps, ReasoningRow(loc.asst, n, ev))
                    ELSE steps
        /\ \E how \in PersistOutcomes(persistOk) :
           IF how = "flush" \/ (ev.type = "response_chunk" /\ ev.null)
           THEN \* "" + None raises TypeError: caught by the outer except
                /\ inv' = [inv EXCEPT ![i] =
                             [seen EXCEPT !.pc = "done",
                                          !.out = Append(loc.out, ServiceError)]]
                /\ UNCHANGED messages
           ELSE /\ messages' = SetContent(messages, loc.asst,
                        ContentAfter(ContentOf(messages, loc.asst), acc2, ev))
                /\ inv' = [inv EXCEPT ![i] =
                             [seen EXCEPT !.acc = acc2,
                                          !.out = Append(loc.out, Forwarded(ev)),
                                          !.eos = EndsStream(loc.wire, ev, c)]]

HandleEvent(i, ev, persistOk) ==
    /\ inv[i].pc = "stream"
    /\ ~inv[i].eos
    /\ evBudget > 0
    /\ evBudget' = evBudget - 1
    /\ Handle(i, ev, persistOk, "none")
    /\ UNCHANGED <<chat, remoteChats, nextMsgId, files, calls>>
    /\ UNCHANGED fvars
    /\ UNCHANGED xvars

\* stream_message catches httpx.TimeoutException / httpx.HTTPError and
\* yields one synthetic error event
TransportFailure(i, kind, persistOk) ==
    /\ inv[i].pc = "stream"
    /\ ~inv[i].eos
    /\ Handle(i, SyntheticError(kind), persistOk, kind)
    /\ UNCHANGED <<chat, remoteChats, nextMsgId, files, evBudget, calls>>
    /\ UNCHANGED fvars
    /\ UNCHANGED xvars

\* "Ensure final content is saved"
FinalContent(old, acc) == IF acc # Empty THEN acc ELSE old

\* "Send final end event": final_content is accumulated_response
EndEvent(acc) == Out("end", acc)

\* The loop is over (break, or the upstream generator is exhausted):
\* final write-through and the end event.
FinishStream(i) ==
    /\ inv[i].pc = "stream"
    /\ messages' = SetContent(messages, inv[i].asst,
                      FinalContent(ContentOf(messages, inv[i].asst), inv[i].acc))
    /\ inv' = [inv EXCEPT ![i].pc = "done", ![i].eos = TRUE,
                          ![i].out = Append(inv[i].out, EndEvent(inv[i].acc))]
    /\ UNCHANGED <<chat, steps, remoteChats, nextMsgId, files, evBudget, calls, faults>>
    /\ UNCHANGED fvars
    /\ UNCHANGED xvars

\* The caller stops iterating while the generator is suspended (the client
\* went away and the response task is cancelled): GeneratorExit or
\* CancelledError is raised at the suspension point. Neither is an
\* Exception, so no except clause of send_message_stream runs: there is no
\* final write and no end event.
Cancel(i) ==
    /\ inv[i].pc = "stream"
    /\ inv' = [inv EXCEPT ![i].pc = "cancelled"]
    /\ UNCHANGED <<chat, messages, steps, remoteChats, nextMsgId, files,
                   evBudget, calls, faults>>
    /\ UNCHANGED fvars
    /\ UNCHANGED xvars

\* ---------------------------------------------- upload_file_and_analyze
UploadFileAndAnalyze(i, u, t, ext) ==
    /\ inv[i].pc = "idle"
    /\ calls < MaxCalls
    /\ calls' = calls + 1
    /\ LET loc == [Idle EXCEPT !.op = "upload", !.user = u, !.text = t,
                               !.ext = ext]
       IN  IF ~GetChatById(u)
           THEN inv' = [inv EXCEPT ![i] =
                          [loc EXCEPT !.pc = "done", !.out = <<UploadError>>]]
           ELSE IF chat.agent = None
           THEN inv' = [inv EXCEPT ![i] = [loc EXCEPT !.pc = "ensure"]]
           ELSE inv' = [inv EXCEPT ![i] =
                          [loc EXCEPT !.pc = "upload", !.agentId = chat.agent]]
    /\ UNCHANGED <<chat, messages, steps, remoteChats, nextMsgId, files,
                   evBudget, faults>>
    /\ UNCHANGED fvars
    /\ UNCHANGED xvars

\* AgentAPIService.upload_file picks the endpoint by extension
ExtSupported(ext) == ext \in {"pdf", "jpg", "jpeg", "png", "gif", "webp",
                              "docx", "xlsx", "xls", "csv", "txt"}

\* upload_file returns (or raises), the file row is saved, file_uploaded is
\* yielded
UploadReturn(i, ok) ==
    /\ inv[i].pc = "upload"
    /\ IF ok /\ ExtSupported(inv[i].ext)
       THEN /\ files' = files + 1
            /\ inv' = [inv EXCEPT ![i].pc = "uploaded",
                         ![i].out = <<Out("file_uploaded", Empty)>>,
                         ![i].base = 1]
       ELSE /\ inv' = [inv EXCEPT ![i].pc = "done",
                                  ![i].out = <<UploadError>>]
            /\ UNCHANGED files
    /\ UNCHANGED <<chat, messages, steps, remoteChats, nextMsgId, evBudget,
                   calls, faults>>
    /\ UNCHANGED fvars
    /\ UNCHANGED xvars

\* "if message: async for event in self.send_message_stream(...)"
UploadAnalyze(i) ==
    /\ inv[i].pc = "uploaded"
    /\ IF inv[i].text # NoText
       THEN EnterSend(i, inv[i])
       ELSE /\ inv' = [inv EXCEPT ![i].pc = "done"]
            /\ UNCHANGED <<messages, nextMsgId>>
    /\ UNCHANGED <<chat, steps, remoteChats, files, evBudget, calls, faults>>
    /\ UNCHANGED fvars
    /\ UNCHANGED xvars

\* ------------------------------------------------ ChatService.create_chat
CreateChat(i, u) ==
    /\ inv[i].pc = "idle"
    /\ calls < MaxCalls
    /\ ~chat.exists
    /\ calls' = calls + 1
    /\ chat' = [exists |-> TRUE, owner |-> u, agent |-> None]
    /\ inv' = [inv EXCEPT ![i] = [Idle EXCEPT !.pc = "create", !.op = "create",
                                              !.user = u]]
    /\ UNCHANGED <<messages, steps, remoteChats, nextMsgId, files, evBudget, faults>>
    /\ UNCHANGED fvars
    /\ UNCHANGED xvars

\* "db_chat.agent_chat_id = agent_result.get('chat_id')"
CreateChatWrite(c, newId) == [c EXCEPT !.agent = newId]

CreateChatReturn(i, ok) ==
    /\ inv[i].pc = "create"
    /\ IF ok
       THEN /\ remoteChats' = remoteChats + 1
            /\ chat' = CreateChatWrite(chat, remoteChats + 1)
       ELSE UNCHANGED <<chat, remoteChats>>
    /\ inv' = [inv EXCEPT ![i].pc = "done"]
    /\ UNCHANGED <<messages, steps, nextMsgId, files, evBudget, calls, faults>>
    /\ UNCHANGED fvars
    /\ UNCHANGED xvars

\* the request is over: the slot serves the next request
Return(i) ==
    /\ inv[i].pc = "done"
    /\ calls < MaxCalls
    /\ inv' = [inv EXCEPT ![i] = Idle]
    /\ UNCHANGED <<chat, messages, steps, remoteChats, nextMsgId, files,
                   evBudget, calls, faults>>
    /\ UNCHANGED fvars
    /\ UNCHANGED xvars

StreamInitCommon ==
    /\ chat = NoChat
    /\ messages = << >>
    /\ steps = << >>
    /\ remoteChats = 0
    /\ nextMsgId = 1
    /\ files = 0
    /\ calls = 0
    /\ faults = 0

\* one request at a time
StreamInit ==
    /\ StreamInitCommon
    /\ inv = [i \in Inv |-> IF i = 1 THEN Idle ELSE Off]
    /\ evBudget = MaxEvents

\* two requests in flight
ConcInit ==
    /\ StreamInitCommon
    /\ inv = [i \in Inv |-> Idle]
    /\ evBudget = MaxConcEvents

\* ======================================================= FallbackService
\* ------------------------------------------------------------------ bounds
MaxFCalls == 4          \* fallback requests started in one run
MaxChecks == 3          \* health probes answered in one run

\* ------------------------------------------------------- program constants
PoorNetworkThreshold == 3   \* NetworkHealthMonitor.poor_network_threshold
CheckWindow == 10           \* "Keep only last 10 checks"
QualityWindow == 5          \* "Last 5 checks"

FUsers == {1, 2}            \* user ids
Phones == {"p1", "p2"}
NoPhone == "none"           \* fallback_phone IS NULL
Reqs == {"r1", "r2"}        \* request coroutines
MonOf(u) == IF u = 1 THEN "m1" ELSE "m2"   \* the monitor task of a user
Mons == {MonOf(u) : u \in FUsers}
Procs == Reqs \cup Mons

NoSession == 0              \* activate_fallback returned None
NoCall == -1                \* no result (yet)
SessionIds == 1..(MaxFCalls + MaxChecks + 2)

UserRow0 == [auto |-> FALSE, active |-> FALSE, phone |-> NoPhone,
             verified |-> FALSE]

FIdle == [pc |-> "idle", op |-> "none", user |-> 0, ret |-> NoCall,
          ok |-> "none", sess |-> NoSession, prior |-> NoCall,
          clean |-> TRUE]
FOff == [FIdle EXCEPT !.pc = "off"]

\* keys of active_listeners: the integer user id for a monitor task,
\* the string "sms_<session id>" for a listener task
MonKey(u) == [kind |-> "int", id |-> u]
SmsKey(sid) == [kind |-> "sms", id |-> sid]
InTable(key) == \E k \in 1..Len(listeners) : listeners[k] = key
Without(tbl, key) == SelectSeq(tbl, LAMBDA x : x # key)

\* the guard without its "not user.fallback_phone_verified"
HasPhoneOnly(row) == row.phone # NoPhone

\* "not user.fallback_phone or not user.fallback_phone_verified"
HasVerifiedPhone(row) == row.phone # NoPhone /\ row.verified

\* the FallbackSession rows of a user with is_active == True, in id order
ActiveSessions(u) ==
    {k \in 1..Len(fsessions) : fsessions[k].user = u /\ fsessions[k].active}

\* .first() of that query
FirstActive(u) == CHOOSE k \in ActiveSessions(u) :
                      \A j \in ActiveSessions(u) : k <= j

\* activate_fallback without its "Check if already active"
NeverAlreadyActive(u) == FALSE

\* activate_fallback: "Check if already active"
AlreadyActive(u) == ActiveSessions(u) # {}

\* deactivate_fallback: "Get active session"
HasActiveSession(u) == ActiveSessions(u) # {}

\* ------------------------------------------------- NetworkHealthMonitor
Last(seq, n) == IF Len(seq) <= n THEN seq
                ELSE SubSeq(seq, Len(seq) - n + 1, Len(seq))

RecordNetworkCheck(hist, is_healthy) ==
    Last(Append(hist, is_healthy), CheckWindow)

\* variant: the recent outcomes are all failures, however few they are
ShouldActivateNoCount(hist) ==
    \A k \in 1..Len(Last(hist, PoorNetworkThreshold)) :
        ~Last(hist, PoorNetworkThreshold)[k]

ShouldActivateFallback(hist) ==
    LET recent == Last(hist, PoorNetworkThreshold)
    IN  /\ Len(recent) >= PoorNetworkThreshold
        /\ \A k \in 1..Len(recent) : ~recent[k]

GetNetworkQuality(hist) ==
    LET recent == Last(hist, QualityWindow)
        healthy_count == Cardinality({k \in 1..Len(recent) : recent[k]})
    IN  IF hist = << >> THEN "unknown"
        ELSE IF healthy_count >= 4 THEN "good"
        ELSE IF healthy_count >= 2 THEN "fair"
        ELSE "poor"

\* ---------------------------------------------------- activate_fallback
\* Another operation on user u starts: the activate_fallback calls in flight
\* for u are no longer one of two calls in a row.
Interleaved(u) ==
    [q \in Procs |->
        IF fp[q].user = u /\ fp[q].pc \in {"act_register", "act_send"}
        THEN [fp[q] EXCEPT !.clean = FALSE] ELSE fp[q]]

\* How a coroutine goes on when activate_fallback has returned r: a request
\* is over, the monitor loop goes to sleep and probes again.
AfterActivate(p, loc, r) ==
    IF p \in Mons
    THEN [loc EXCEPT !.pc = "probe", !.ret = r]
    ELSE [loc EXCEPT !.pc = "done", !.ret = r]

\* activate_fallback up to its first await: the phone check, the
\* already-active check, the new session row and user.fallback_active,
\* committed together. fallback_sessions.chat_id is a foreign key to chats.id:
\* the commit of a session that names a chat which does not exist fails, the
\* except branch rolls back and returns None.
EnterActivate(p, loc, trigger, chat_id) ==
    LET u == loc.user IN
    IF ~HasVerifiedPhone(users[u])
    THEN /\ fp' = [fp EXCEPT ![p] = AfterActivate(p, loc, NoSession)]
         /\ lastAct' = [lastAct EXCEPT ![u] = NoSession]
         /\ UNCHANGED <<users, fsessions>>
    ELSE IF AlreadyActive(u)
    THEN /\ fp' = [fp EXCEPT ![p] = AfterActivate(p, loc, FirstActive(u))]
         /\ lastAct' = [lastAct EXCEPT ![u] = FirstActive(u)]
         /\ UNCHANGED <<users, fsessions>>
    ELSE IF chat_id # None /\ ~(chat_id = ChatId /\ chat.exists)
    THEN /\ fp' = [fp EXCEPT ![p] = AfterActivate(p, loc, NoSession)]
         /\ lastAct' = [lastAct EXCEPT ![u] = NoSession]
         /\ UNCHANGED <<users, fsessions>>
    ELSE /\ fsessions' = Append(fsessions,
                [user |-> u, chat |-> chat_id, phone |-> users[u].phone,
                 active |-> TRUE, trigger |-> trigger])
         /\ users' = [users EXCEPT ![u].active = TRUE]
         /\ fp' = [fp EXCEPT ![p] =
                     [loc EXCEPT !.pc = "act_register", !.clean = TRUE,
                                 !.sess = Len(fsessions) + 1]]
         /\ UNCHANGED lastAct

\* POST /fallback/activate, with the chat_id query parameter of the caller
ActivateFallback(p, u, chat_id) ==
    /\ p \in Reqs
    /\ fp[p].pc = "idle"
    /\ fcalls < MaxFCalls
    /\ fcalls' = fcalls + 1
    /\ EnterActivate(p, [FIdle EXCEPT !.op = "activate", !.user = u,
                                      !.prior = lastAct[u]], "manual", chat_id)
    /\ UNCHANGED <<listeners, ltask, checks, smsSent, registered, probes>>
    /\ UNCHANGED svars
    /\ UNCHANGED xvars

\* "await sms_service.register_phone(user.fallback_phone)" returns
ActivateRegistered(p) ==
    /\ fp[p].pc = "act_register"
    /\ registered' = registered \cup {users[fp[p].user].phone}
    /\ fp' = [fp EXCEPT ![p].pc = "act_send"]
    /\ UNCHANGED <<users, fsessions, listeners, ltask, checks, smsSent,
                   lastAct, fcalls, probes>>
    /\ UNCHANGED svars
    /\ UNCHANGED xvars

\* start_sms_listener: a task per session, registered under "sms_<id>"
StartSmsListener(tbl, sid) ==
    IF \E k \in 1..Len(tbl) : tbl[k] = SmsKey(sid)
    THEN tbl ELSE Append(tbl, SmsKey(sid))

\* "await sms_service.send_sms(...)" returns; the listener is started and
\* the session returned
ActivateNotified(p) ==
    /\ fp[p].pc = "act_send"
    /\ smsSent' = smsSent + 1
    /\ listeners' = StartSmsListener(listeners, fp[p].sess)
    /\ ltask' = IF InTable(SmsKey(fp[p].sess)) THEN ltask
                ELSE [ltask EXCEPT ![fp[p].sess] = "running"]
    /\ fp' = [fp EXCEPT ![p] = AfterActivate(p, fp[p], fp[p].sess)]
    /\ lastAct' = [lastAct EXCEPT ![fp[p].user] =
                                  IF fp[p].clean THEN fp[p].sess ELSE NoCall]
    /\ UNCHANGED <<users, fsessions, checks, registered, fcalls, probes>>
    /\ UNCHANGED svars
    /\ UNCHANGED xvars

\* -------------------------------------------------- deactivate_fallback
\* stop_sms_listener: the keys that start with "sms_" and end with
\* "_<user_id>"; key.startswith on an integer key raises AttributeError
KeyMatches(key, u) == key.kind = "sms" /\ key.id = u

\* index of the first integer key, 0 if none: the loop raises there
FirstIntKey(tbl) ==
    IF \E k \in 1..Len(tbl) : tbl[k].kind = "int"
    THEN CHOOSE k \in 1..Len(tbl) :
            /\ tbl[k].kind = "int"
            /\ \A j \in 1..(k - 1) : tbl[j].kind # "int"
    ELSE 0

StopRaises(tbl) == FirstIntKey(tbl) # 0

\* the tasks cancelled before the loop ends or raises
StopCancels(tbl, u) ==
    {tbl[k].id : k \in {j \in 1..Len(tbl) :
                          /\ KeyMatches(tbl[j], u)
                          /\ (StopRaises(tbl) => j < FirstIntKey(tbl))}}

\* the table afterwards: the keys are deleted only when the loop completed
StopTable(tbl, u) ==
    IF StopRaises(tbl) THEN tbl
    ELSE SelectSeq(tbl, LAMBDA key : ~KeyMatches(key, u))

\* POST /fallback/deactivate, up to the first await
DeactivateFallback(p, u) ==
    /\ p \in Reqs
    /\ fp[p].pc = "idle"
    /\ fcalls < MaxFCalls
    /\ fcalls' = fcalls + 1
    /\ lastAct' = [lastAct EXCEPT ![u] = NoCall]
    /\ LET loc == [FIdle EXCEPT !.op = "deactivate", !.user = u] IN
       IF ~HasActiveSession(u)
       THEN /\ fp' = [Interleaved(u) EXCEPT ![p] = [loc EXCEPT !.pc = "done", !.ok = "yes"]]
            /\ UNCHANGED <<users, fsessions, listeners, ltask>>
       ELSE /\ fsessions' = [fsessions EXCEPT ![FirstActive(u)].active = FALSE]
            /\ users' = [users EXCEPT ![u].active = FALSE]
            /\ listeners' = StopTable(listeners, u)
            /\ ltask' = [sid \in DOMAIN ltask |->
                           IF sid \in StopCancels(listeners, u)
                              /\ ltask[sid] = "running"
                           THEN "cancelled" ELSE ltask[sid]]
            /\ fp' = [Interleaved(u) EXCEPT ![p] =
                 IF StopRaises(listeners)
                 THEN [loc EXCEPT !.pc = "done", !.ok = "no",
                                  !.sess = FirstActive(u)]
                 ELSE IF users[u].phone # NoPhone
                 THEN [loc EXCEPT !.pc = "deact_send", !.sess = FirstActive(u)]
                 ELSE [loc EXCEPT !.pc = "done", !.ok = "yes",
                                  !.sess = FirstActive(u)]]
    /\ UNCHANGED <<checks, smsSent, registered, probes>>
    /\ UNCHANGED svars
    /\ UNCHANGED xvars

\* the restoration notice was sent
DeactivateNotified(p) ==
    /\ fp[p].pc = "deact_send"
    /\ smsSent' = smsSent + 1
    /\ fp' = [fp EXCEPT ![p].pc = "done", ![p].ok = "yes"]
    /\ UNCHANGED <<users, fsessions, listeners, ltask, checks, registered,
                   lastAct, fcalls, probes>>
    /\ UNCHANGED svars
    /\ UNCHANGED xvars

\* ------------------------------------------------- Telegram activation
ActivateTelegramFallback(p, u) ==
    /\ p \in Reqs
    /\ fp[p].pc = "idle"
    /\ fcalls < MaxFCalls
    /\ fcalls' = fcalls + 1
    /\ lastAct' = [lastAct EXCEPT ![u] = NoCall]
    /\ fp' = [Interleaved(u) EXCEPT ![p] = [FIdle EXCEPT !.pc = "tg_activate",
                                             !.op = "tg_activate", !.user = u]]
    /\ UNCHANGED <<users, fsessions, listeners, ltask, checks, smsSent,
                   registered, probes>>
    /\ UNCHANGED svars
    /\ UNCHANGED xvars

\* "if success: user.fallback_active = True"
TelegramActivated(row) == [row EXCEPT !.active = TRUE]

ActivateTelegramReturn(p, success) ==
    /\ fp[p].pc = "tg_activate"
    /\ users' = IF success
                THEN [users EXCEPT ![fp[p].user] = TelegramActivated(@)]
                ELSE users
    /\ fp' = [fp EXCEPT ![p].pc = "done",
                        ![p].ok = IF success THEN "yes" ELSE "no"]
    /\ UNCHANGED <<fsessions, listeners, ltask, checks, smsSent, registered,
                   lastAct, fcalls, probes>>
    /\ UNCHANGED svars
    /\ UNCHANGED xvars

DeactivateTelegramFallback(p, u) ==
    /\ p \in Reqs
    /\ fp[p].pc = "idle"
    /\ fcalls < MaxFCalls
    /\ fcalls' = fcalls + 1
    /\ lastAct' = [lastAct EXCEPT ![u] = NoCall]
    /\ fp' = [Interleaved(u) EXCEPT ![p] = [FIdle EXCEPT !.pc = "tg_deactivate",
                                             !.op = "tg_deactivate", !.user = u]]
    /\ UNCHANGED <<users, fsessions, listeners, ltask, checks, smsSent,
                   registered, probes>>
    /\ UNCHANGED svars
    /\ UNCHANGED xvars

\* "if success: user.fallback_active = False"
TelegramDeactivated(row) == [row EXCEPT !.active = FALSE]

DeactivateTelegramReturn(p, success) ==
    /\ fp[p].pc = "tg_deactivate"
    /\ users' = IF success
                THEN [users EXCEPT ![fp[p].user] = TelegramDeactivated(@)]
                ELSE users
    /\ fp' = [fp EXCEPT ![p].pc = "done",
                        ![p].ok = IF success THEN "yes" ELSE "no"]
    /\ UNCHANGED <<fsessions, listeners, ltask, checks, smsSent, registered,
                   lastAct, fcalls, probes>>
    /\ UNCHANGED svars
    /\ UNCHANGED xvars

\* ---------------------------------------------- update_fallback_settings
\* the request body after FallbackSettingsUpdate.dict(exclude_unset=True):
\* each field is absent ("unset") or carries a value
SettingsInputs ==
    [auto : {"unset", "yes", "no"},
     phone : {"unset", NoPhone} \cup Phones,
     verified : {"unset", "yes", "no"}]

\* the user row the handler commits
UpdatedUser(row, st) ==
    LET r1 == IF st.auto = "unset" THEN row
              ELSE [row EXCEPT !.auto = (st.auto = "yes")]
        r2 == IF st.phone = "unset" THEN r1
              ELSE [r1 EXCEPT !.phone = st.phone,
                              !.verified =
                                 IF row.phone # NoPhone /\ row.phone # st.phone
                                 THEN FALSE ELSE r1.verified]
    IN  IF st.verified = "unset" THEN r2
        ELSE [r2 EXCEPT !.verified = (st.verified = "yes")]

MonitorTask(u) == [FIdle EXCEPT !.pc = "probe", !.op = "monitor", !.user = u]

\* PUT /fallback/settings, with start_network_monitoring /
\* stop_network_monitoring after the commit (neither suspends)
UpdateFallbackSettings(p, u, st) ==
    /\ p \in Reqs
    /\ fp[p].pc = "idle"
    /\ fcalls < MaxFCalls
    /\ fcalls' = fcalls + 1
    /\ lastAct' = [lastAct EXCEPT ![u] = NoCall]
    /\ users' = [users EXCEPT ![u] = UpdatedUser(users[u], st)]
    /\ LET on == users'[u].auto
           there == InTable(MonKey(u))
           done == [FIdle EXCEPT !.pc = "done", !.op = "settings",
                                 !.user = u, !.ok = "yes"]
       IN  /\ listeners' = IF on
                           THEN (IF there THEN listeners
                                 ELSE Append(listeners, MonKey(u)))
                           ELSE Without(listeners, MonKey(u))
           /\ fp' = [Interleaved(u) EXCEPT ![p] = done,
                               ![MonOf(u)] =
                                  IF on /\ ~there THEN MonitorTask(u)
                                  ELSE IF ~on /\ there THEN FOff
                                  ELSE Interleaved(u)[MonOf(u)]]
    /\ UNCHANGED <<fsessions, ltask, checks, smsSent, registered, probes>>
    /\ UNCHANGED svars
    /\ UNCHANGED xvars

\* POST /fallback/verify-phone followed by mark_phone_verified: the phone in
\* the identity provider's token must be the fallback phone on file
VerifyPhone(p, u, tokenPhone) ==
    /\ p \in Reqs
    /\ fp[p].pc = "idle"
    /\ fcalls < MaxFCalls
    /\ fcalls' = fcalls + 1
    /\ lastAct' = [lastAct EXCEPT ![u] = NoCall]
    /\ LET match == users[u].phone = tokenPhone IN
       /\ users' = IF match THEN [users EXCEPT ![u].verified = TRUE] ELSE users
       /\ fp' = [Interleaved(u) EXCEPT ![p] =
                   [FIdle EXCEPT !.pc = "done", !.op = "verify", !.user = u,
                                 !.ok = IF match THEN "yes" ELSE "no"]]
    /\ UNCHANGED <<fsessions, listeners, ltask, checks, smsSent, registered,
                   probes>>
    /\ UNCHANGED svars
    /\ UNCHANGED xvars

\* -------------------------------------------------------- monitor_task
\* one iteration: the health probe answers, the outcome is recorded, and
\* activate_fallback(db, user_id, "auto") is entered when called for
MonitorProbe(u, is_healthy) ==
    LET p == MonOf(u)
        hist == RecordNetworkCheck(checks[u], is_healthy)
    IN  /\ fp[p].pc = "probe"
        /\ probes < MaxChecks
        /\ probes' = probes + 1
        /\ checks' = [checks EXCEPT ![u] = hist]
        /\ IF users[u].auto /\ ~users[u].active /\ ShouldActivateFallback(hist)
           THEN EnterActivate(p, [fp[p] EXCEPT !.prior = lastAct[u],
                                               !.ret = NoCall], "auto", None)
           ELSE UNCHANGED <<users, fsessions, fp, lastAct>>
        /\ fed' = [fed EXCEPT ![u] = Append(@, is_healthy)]
        /\ UNCHANGED <<listeners, ltask, smsSent, registered, fcalls>>
    /\ UNCHANGED svars
    /\ UNCHANGED <<edit, lpos, fmsgs, smsIn, rt, delivered, dec>>

\* the response was sent: the coroutine serves the next request
FReturn(p) ==
    /\ p \in Reqs
    /\ fp[p].pc = "done"
    /\ fcalls < MaxFCalls
    /\ fp' = [fp EXCEPT ![p] = FIdle]
    /\ UNCHANGED <<users, fsessions, listeners, ltask, checks, smsSent,
                   registered, lastAct, fcalls, probes>>
    /\ UNCHANGED svars
    /\ UNCHANGED xvars

FallbackInit ==
    /\ users = [u \in FUsers |-> UserRow0]
    /\ fsessions = << >>
    /\ listeners = << >>
    /\ ltask = [sid \in SessionIds |-> "none"]
    /\ checks = [u \in FUsers |-> << >>]
    /\ smsSent = 0
    /\ registered = {}
    /\ fp = [p \in Procs |-> IF p = "r1" THEN FIdle ELSE FOff]
    /\ lastAct = [u \in FUsers |-> NoCall]
    /\ fcalls = 0
    /\ probes = 0

\* the streaming side at rest
StreamIdle ==
    /\ StreamInitCommon
    /\ inv = [i \in Inv |-> Off]
    /\ evBudget = 0

\* ============================================== PUT /messages/{id}/edit
\* ------------------------------------------------------------------ bounds
MaxEdits == 2           \* edit_message requests in one run

\* message ids a client may address: those allocated and one that is not
MessageIds == 1..4

NoEdit == [n |-> 0, status |-> 0, id |-> 0, caller |-> 0, found |-> FALSE]

\* "not message.original_content": NULL and the empty string are both falsy
Falsy(text) == text = NullText \/ text = Empty

\* the query of edit_message: id, owner and role "user"
EditableIndex(msgs, mid, caller) ==
    {k \in 1..Len(msgs) : /\ msgs[k].id = mid
                          /\ msgs[k].user = caller
                          /\ msgs[k].role = "user"}

\* "Store original content if not already stored", "Update message content"
Edited(row, content) ==
    [row EXCEPT !.original = IF Falsy(row.original) THEN row.content ELSE @,
                !.content = content,
                !.edited = TRUE]

\* "Delete all messages that come after this one in the chat"
ToDelete(row, m) == row.chat = m.chat /\ row.at > m.at

\* the table after the commit of an edit of the row at index k
AfterEdit(msgs, k, content) ==
    SelectSeq([j \in 1..Len(msgs) |->
                  IF j = k THEN Edited(msgs[j], content) ELSE msgs[j]],
              LAMBDA row : ~ToDelete(row, msgs[k]))

\* "except Exception as e: ... raise HTTPException(status_code=500, ...)":
\* the handler of the try block that every raise inside it reaches,
\* HTTPException included
Caught(status) == 500

\* The whole handler (it has no suspension point). The commit may fail, and
\* is then rolled back.
EditMessage(mid, caller, content, commitOk) ==
    LET found == EditableIndex(messages, mid, caller)
        k == CHOOSE j \in found : TRUE
        status == IF found = {} THEN Caught(404)
                  ELSE IF commitOk THEN 200 ELSE Caught(500)
    IN  /\ edit.n < MaxEdits
        /\ edit' = [n |-> edit.n + 1, status |-> status, id |-> mid,
                    caller |-> caller, found |-> found # {}]
        /\ messages' = IF found # {} /\ commitOk
                       THEN AfterEdit(messages, k, content)
                       ELSE messages
        /\ UNCHANGED <<chat, steps, remoteChats, nextMsgId, files, inv,
                       evBudget, calls, faults>>
        /\ UNCHANGED fvars
        /\ UNCHANGED <<lpos, fmsgs, smsIn, fed, rt, delivered, dec>>

\* ===================================== listen_task, process_incoming_sms
\* ------------------------------------------------------------------ bounds
MaxSms == 2             \* inbound SMS delivered in one run

\* what "await sms_service.receive_sms()" returns: None, or a message of
\* some phone with some text (an SMS may have an empty body)
NoSms == [phone |-> NoPhone, text |-> Empty]
SmsInputs == {NoSms} \cup [phone : Phones, text : {Empty, <<"q1">>}]

\* the fallback chat process_incoming_sms creates for a session without one
FallbackChatOf(sid) == ChatId + sid

\* the session row after process_incoming_sms ("Update session with chat_id")
WithChat(row, sid) ==
    IF row.chat = None THEN [row EXCEPT !.chat = FallbackChatOf(sid)] ELSE row

\* the FallbackMessage row of an inbound SMS; active remembers is_active of
\* the session at the time of the write
InboundRow(sid, sms) ==
    [session |-> sid, user |-> fsessions[sid].user, phone |-> sms.phone,
     content |-> sms.text, active |-> fsessions[sid].active]

\* variant: the loop polls again without looking at the session
ListenerCheckNoExit(sid) ==
    /\ sid \in 1..Len(fsessions)
    /\ ltask[sid] = "running"
    /\ lpos[sid] = "top"
    /\ lpos' = [lpos EXCEPT ![sid] = "poll"]
    /\ UNCHANGED <<edit, fmsgs, smsIn, fed, rt, delivered, dec>>
    /\ UNCHANGED svars
    /\ UNCHANGED fvars

\* Top of the loop of listen_task: "Check if session is still active", then
\* suspend in the long poll, or break.
ListenerCheck(sid) ==
    /\ sid \in 1..Len(fsessions)
    /\ ltask[sid] = "running"
    /\ lpos[sid] = "top"
    /\ lpos' = [lpos EXCEPT ![sid] = IF fsessions[sid].active
                                     THEN "poll" ELSE "ended"]
    /\ UNCHANGED <<edit, fmsgs, smsIn, fed, rt, delivered, dec>>
    /\ UNCHANGED svars
    /\ UNCHANGED fvars

\* receive_sms returns: a message of the session's phone is handed to
\* process_incoming_sms, which stores the FallbackMessage and the user
\* ChatMessage in one commit; the task then sleeps before the next check.
ListenerReceive(sid, sms) ==
    /\ sid \in 1..Len(fsessions)
    /\ ltask[sid] = "running"
    /\ lpos[sid] = "poll"
    /\ lpos' = [lpos EXCEPT ![sid] = "top"]
    /\ IF sms = NoSms
       THEN UNCHANGED <<smsIn, delivered, fmsgs, fsessions, messages,
                        nextMsgId>>
       ELSE /\ smsIn < MaxSms
            /\ smsIn' = smsIn + 1
            /\ delivered' = Append(delivered,
                                   [phone |-> sms.phone, text |-> sms.text,
                                    to |-> sid])
            /\ IF sms.phone = fsessions[sid].phone
               THEN /\ fmsgs' = Append(fmsgs, InboundRow(sid, sms))
                    /\ fsessions' = [fsessions EXCEPT ![sid] = WithChat(@, sid)]
                    /\ messages' = Append(messages,
                          NewMessage(nextMsgId, WithChat(fsessions[sid], sid).chat,
                                     fsessions[sid].user, "user", sms.text))
                    /\ nextMsgId' = nextMsgId + 1
               ELSE UNCHANGED <<fmsgs, fsessions, messages, nextMsgId>>
    /\ UNCHANGED <<chat, steps, remoteChats, files, inv, evBudget, calls, faults>>
    /\ UNCHANGED <<users, listeners, ltask, checks, smsSent, registered, fp,
                   lastAct, fcalls, probes>>
    /\ UNCHANGED <<edit, fed, rt, dec>>

\* ================================================= POST /chat/send-stream
\* ------------------------------------------------------------------ bounds
MaxRouterEvents == 2    \* upstream events delivered while the router streams

\* the handler's locals: chat_id is None until the chat is known; sent counts
\* the events of the service generator already written as frames
NoRoute ==
    [pc |-> "off", user |-> None, text |-> NoText, chat_id |-> None,
     status |-> 0, frames |-> << >>, sent |-> 0, raised |-> FALSE]

RouteIdle == [NoRoute EXCEPT !.pc = "idle"]

\* str(chat_id)
Str(id) == [str |-> id]

\* "data: {json}": the fields of a frame the client dispatches on
Frame(type, chat_id) == [type |-> type, chat_id |-> Str(chat_id)]

\* the frame of a forwarded event: the events of send_message_stream carry
\* "chat_id": str(chat_id), and the router adds it when it is missing
EventFrame(ev, chat_id) == Frame(ev.type, chat_id)

\* "Finalize"
EndFrame(chat_id) == Frame("end", chat_id)

\* variant: the except branch writes its error frame only
ExceptFramesNoEnd(chat_id) == <<Frame("error", chat_id)>>

\* the except branch of stream_generator: the error frame, then the end frame
ExceptFrames(chat_id) == <<Frame("error", chat_id), EndFrame(chat_id)>>

\* The handler up to its first suspension point or its answer. withChat:
\* the request names the chat; otherwise a chat is created first.
RouterSendStream(i, u, t, withChat) ==
    /\ rt[i].pc = "idle"
    /\ inv[i].pc = "idle"
    /\ LET loc == [rt[i] EXCEPT !.user = u, !.text = t] IN
       IF t = Empty
       THEN /\ rt' = [rt EXCEPT ![i] = [loc EXCEPT !.pc = "closed",
                                                   !.status = 400]]
            /\ UNCHANGED <<chat, messages, nextMsgId, inv>>
       ELSE IF withChat /\ ~GetChatById(u)
       THEN /\ rt' = [rt EXCEPT ![i] = [loc EXCEPT !.pc = "closed",
                                                   !.status = 404]]
            /\ UNCHANGED <<chat, messages, nextMsgId, inv>>
       ELSE IF withChat
       THEN /\ messages' = AddMessage(messages, nextMsgId, u, "user", t)
            /\ nextMsgId' = nextMsgId + 1
            /\ rt' = [rt EXCEPT ![i] = [loc EXCEPT !.pc = "routed",
                                                   !.chat_id = ChatId,
                                                   !.status = 200]]
            /\ UNCHANGED <<chat, inv>>
       ELSE \* ChatService.create_chat up to "await agent_api.create_chat"
            /\ ~chat.exists
            /\ chat' = [exists |-> TRUE, owner |-> u, agent |-> None]
            /\ inv' = [inv EXCEPT ![i] = [Idle EXCEPT !.pc = "create",
                                                      !.op = "create",
                                                      !.user = u]]
            /\ rt' = [rt EXCEPT ![i] = [loc EXCEPT !.pc = "creating"]]
            /\ UNCHANGED <<messages, nextMsgId>>
    /\ UNCHANGED <<steps, remoteChats, files, evBudget, calls, faults>>
    /\ UNCHANGED fvars
    /\ UNCHANGED <<edit, lpos, fmsgs, smsIn, fed, delivered, dec>>

\* create_chat returned the chat (with or without agent_chat_id): the user
\* message is persisted and the StreamingResponse returned
RouterCreated(i) ==
    /\ rt[i].pc = "creating"
    /\ inv[i].pc = "done"
    /\ messages' = AddMessage(messages, nextMsgId, rt[i].user, "user",
                              rt[i].text)
    /\ nextMsgId' = nextMsgId + 1
    /\ inv' = [inv EXCEPT ![i] = Idle]
    /\ rt' = [rt EXCEPT ![i].pc = "routed", ![i].chat_id = ChatId,
                        ![i].status = 200]
    /\ UNCHANGED <<chat, steps, remoteChats, files, evBudget, calls, faults>>
    /\ UNCHANGED fvars
    /\ UNCHANGED <<edit, lpos, fmsgs, smsIn, fed, delivered, dec>>

\* the response starts iterating stream_generator, which enters
\* integrated_chat_service.send_message_stream
StreamGeneratorStart(i) ==
    /\ rt[i].pc = "routed"
    /\ calls < MaxCalls
    /\ calls' = calls + 1
    /\ EnterSend(i, [Idle EXCEPT !.op = "send", !.user = rt[i].user,
                                 !.text = rt[i].text])
    /\ rt' = [rt EXCEPT ![i].pc = "streaming"]
    /\ UNCHANGED <<chat, steps, remoteChats, files, evBudget, faults>>
    /\ UNCHANGED fvars
    /\ UNCHANGED <<edit, lpos, fmsgs, smsIn, fed, delivered, dec>>

\* the next event of the service generator is written as a frame; raises: an
\* exception reaches the except branch of stream_generator instead (from the
\* generator, or from json.dumps of the event), which ends the response
RouterForward(i, raises) ==
    /\ rt[i].pc = "streaming"
    /\ rt[i].sent < Len(inv[i].out)
    /\ rt' = [rt EXCEPT ![i] =
                IF raises
                THEN [@ EXCEPT !.pc = "closed", !.raised = TRUE,
                               !.frames = @ \o ExceptFrames(rt[i].chat_id)]
                ELSE [@ EXCEPT !.sent = @ + 1,
                               !.frames = Append(@,
                                  EventFrame(inv[i].out[rt[i].sent + 1],
                                             rt[i].chat_id))]]
    /\ UNCHANGED svars
    /\ UNCHANGED fvars
    /\ UNCHANGED <<edit, lpos, fmsgs, smsIn, fed, delivered, dec>>

\* the service generator is exhausted: the final frame
RouterEnd(i) ==
    /\ rt[i].pc = "streaming"
    /\ inv[i].pc = "done"
    /\ rt[i].sent = Len(inv[i].out)
    /\ rt' = [rt EXCEPT ![i].pc = "closed",
                        ![i].frames = Append(@, EndFrame(rt[i].chat_id))]
    /\ UNCHANGED svars
    /\ UNCHANGED fvars
    /\ UNCHANGED <<edit, lpos, fmsgs, smsIn, fed, delivered, dec>>

\* =========================================== AgentAPIService.stream_message
\* ------------------------------------------------------------------ bounds
MaxLines == 3           \* payloads the agent sends in one response body

\* ----------------------------------------------------- the response body
\* What the agent puts on one line: a JSON object with or without a "type"
\* key, a JSON value that is not an object, text that is not JSON, nothing.
JsonObject(t) == [kind |-> "object", type |-> t]
NoTypeKey == "none"
Payloads ==
    { JsonObject("thinking"), JsonObject("response"), JsonObject("error"),
      JsonObject(NoTypeKey),
      [kind |-> "scalar", type |-> NoTypeKey],
      [kind |-> "garbage", type |-> NoTypeKey],
      [kind |-> "blank", type |-> NoTypeKey] }

\* A line is the sequence of its pieces: the SSE field prefix, a payload,
\* the SSE end marker.
DataPrefix == [kind |-> "data: ", type |-> NoTypeKey]
DoneMarker == [kind |-> "[DONE]", type |-> NoTypeKey]

\* one JSON value per line
EncodeNdjson(items) == [k \in 1..Len(items) |-> <<items[k]>>]

\* one "data: <json>" line and one empty line per event, then "data: [DONE]"
RECURSIVE EncodeSse(_)
EncodeSse(items) ==
    IF items = << >> THEN << <<DataPrefix, DoneMarker>> >>
    ELSE << <<DataPrefix, Head(items)>>, << >> >> \o EncodeSse(Tail(items))

\* "if not line.strip()"
IsBlankLine(line) == \A k \in 1..Len(line) : line[k].kind = "blank"

\* json.loads(text): the value, or JSONDecodeError
JsonLoads(text) ==
    IF Len(text) = 1 /\ text[1].kind \in {"object", "scalar"}
    THEN text[1]
    ELSE [kind |-> "JSONDecodeError", type |-> NoTypeKey]

\* StreamingEvent(type=event_data.get("type", "unknown"), data=event_data)
StreamingEvent(event_data) ==
    [type |-> IF event_data.type = NoTypeKey THEN "unknown"
              ELSE event_data.type,
     data |-> event_data]

\* event_data.get of a value that is not an object raises AttributeError:
\* the "except Exception" of stream_message yields this event and returns
UnexpectedEvent ==
    [type |-> "error", data |-> [kind |-> "synthetic", type |-> "error"]]

\* variant: no line completes the NDJSON body
NeverComplete(event_data) == FALSE

\* "Check for completion": event_data.get('type') == 'response'
IsCompletion(event_data) == event_data.type = "response"

\* the branch for 'application/json' in content_type
RECURSIVE DecodeNdjson(_)
DecodeNdjson(lines) ==
    IF lines = << >> THEN << >>
    ELSE IF IsBlankLine(Head(lines)) THEN DecodeNdjson(Tail(lines))
    ELSE LET event_data == JsonLoads(Head(lines)) IN
         CASE event_data.kind = "JSONDecodeError" -> DecodeNdjson(Tail(lines))
           [] event_data.kind = "scalar" -> <<UnexpectedEvent>>
           [] IsCompletion(event_data) -> <<StreamingEvent(event_data)>>
           [] OTHER ->
                 <<StreamingEvent(event_data)>> \o DecodeNdjson(Tail(lines))

\* the loop for every other content type: "Parse SSE format"
RECURSIVE DecodeSse(_)
DecodeSse(lines) ==
    IF lines = << >> THEN << >>
    ELSE LET line == Head(lines) IN
         IF IsBlankLine(line) THEN DecodeSse(Tail(lines))
         ELSE IF line[1] # DataPrefix THEN DecodeSse(Tail(lines))
         ELSE LET data_str == Tail(line) IN
              IF data_str = <<DoneMarker>> THEN << >>
              ELSE LET event_data == JsonLoads(data_str) IN
                   CASE event_data.kind = "JSONDecodeError" ->
                           DecodeSse(Tail(lines))
                     [] event_data.kind = "scalar" -> <<UnexpectedEvent>>
                     [] OTHER ->
                           <<StreamingEvent(event_data)>>
                              \o DecodeSse(Tail(lines))

NoDecode == [items |-> << >>, wire |-> "none", out |-> << >>]

\* One stream_message call read to its end: the agent answers the payloads
\* in the wire shape of its choice, the content type selects the decoder.
StreamMessage(items, wire) ==
    /\ dec = NoDecode
    /\ dec' = [items |-> items, wire |-> wire,
               out |-> IF wire = "ndjson"
                       THEN DecodeNdjson(EncodeNdjson(items))
                       ELSE DecodeSse(EncodeSse(items))]
    /\ UNCHANGED svars
    /\ UNCHANGED fvars
    /\ UNCHANGED <<edit, lpos, fmsgs, smsIn, fed, rt, delivered>>

HandlersInit ==
    /\ edit = NoEdit
    /\ lpos = [sid \in SessionIds |-> "top"]
    /\ fmsgs = << >>
    /\ smsIn = 0
    /\ fed = [u \in FUsers |-> << >>]
    /\ rt = [i \in Inv |-> IF i = 1 THEN RouteIdle ELSE NoRoute]
    /\ delivered = << >>
    /\ dec = NoDecode

\* one send_message_stream at a time, on a chat that user 1 created (or that
\* does not exist), with every upstream event sequence up to MaxEvents
StreamNext ==
    \/ \E i \in Inv, u \in Users : SendMessageStream(i, u, <<"q1">>)
    \/ \E i \in Inv, ok \in BOOLEAN : EnsureAgentChatReturn(i, ok)
    \/ \E i \in Inv, ev \in UpstreamEvents, ok \in BOOLEAN :
           HandleEvent(i, ev, ok)
    \/ \E i \in Inv, k \in TransportFailures, ok \in BOOLEAN :
           TransportFailure(i, k, ok)
    \/ \E i \in Inv : FinishStream(i)
    \/ \E i \in Inv : CreateChat(i, 1)
    \/ \E i \in Inv, ok \in BOOLEAN : CreateChatReturn(i, ok)
    \/ \E i \in Inv : Return(i)

StreamStart == StreamInit /\ FallbackInit /\ HandlersInit

SpecStream == StreamStart /\ [][StreamNext]_vars

\* two requests of user 1 in flight on the same chat
ConcNext ==
    \/ \E i \in Inv : SendMessageStream(i, 1, <<"q1">>)
    \/ \E i \in Inv, ok \in BOOLEAN : EnsureAgentChatReturn(i, ok)
    \/ \E i \in Inv, ev \in UpstreamEvents, ok \in BOOLEAN :
           HandleEvent(i, ev, ok)
    \/ \E i \in Inv, k \in TransportFailures, ok \in BOOLEAN :
           TransportFailure(i, k, ok)
    \/ \E i \in Inv : FinishStream(i)
    \/ \E i \in Inv, t \in {<<"q1">>, NoText}, e \in Exts :
           UploadFileAndAnalyze(i, 1, t, e)
    \/ \E i \in Inv, ok \in BOOLEAN : UploadReturn(i, ok)
    \/ \E i \in Inv : UploadAnalyze(i)
    \/ \E i \in Inv : CreateChat(i, 1)
    \/ \E i \in Inv, ok \in BOOLEAN : CreateChatReturn(i, ok)
    \/ \E i \in Inv : Return(i)

ConcStart == ConcInit /\ FallbackInit /\ HandlersInit

SpecConc == ConcStart /\ [][ConcNext]_vars

\* the fallback requests of user 1 one after the other, the monitor task in
\* the background
FallbackNext ==
    \/ \E p \in Reqs : ActivateFallback(p, 1, None)
    \/ \E p \in Procs : ActivateRegistered(p)
    \/ \E p \in Procs : ActivateNotified(p)
    \/ \E p \in Reqs : DeactivateFallback(p, 1)
    \/ \E p \in Reqs : DeactivateNotified(p)
    \/ \E p \in Reqs : ActivateTelegramFallback(p, 1)
    \/ \E p \in Reqs, ok \in BOOLEAN : ActivateTelegramReturn(p, ok)
    \/ \E p \in Reqs : DeactivateTelegramFallback(p, 1)
    \/ \E p \in Reqs, ok \in BOOLEAN : DeactivateTelegramReturn(p, ok)
    \/ \E p \in Reqs, st \in SettingsInputs : UpdateFallbackSettings(p, 1, st)
    \/ \E p \in Reqs, ph \in Phones : VerifyPhone(p, 1, ph)
    \/ \E h \in BOOLEAN : MonitorProbe(1, h)
    \/ \E p \in Reqs : FReturn(p)

FallbackStart == StreamIdle /\ FallbackInit /\ HandlersInit

SpecFallback == FallbackStart /\ [][FallbackNext]_vars

\* the SMS side without the monitor: both users configure a verified phone,
\* activate and deactivate one request after the other, the listeners poll
ListenerSettings ==
    {st \in SettingsInputs : /\ st.auto = "unset"
                             /\ st.phone \in Phones
                             /\ st.verified = "yes"}

ListenerNext ==
    \/ \E p \in Reqs, u \in FUsers, st \in ListenerSettings :
           UpdateFallbackSettings(p, u, st)
    \/ \E p \in Reqs, u \in FUsers : ActivateFallback(p, u, None)
    \/ \E p \in Procs : ActivateRegistered(p)
    \/ \E p \in Procs : ActivateNotified(p)
    \/ \E p \in Reqs, u \in FUsers : DeactivateFallback(p, u)
    \/ \E p \in Reqs : DeactivateNotified(p)
    \/ \E p \in Reqs : FReturn(p)
    \/ \E sid \in SessionIds : ListenerCheck(sid)
    \/ \E sid \in SessionIds, sms \in SmsInputs : ListenerReceive(sid, sms)

SpecListener == FallbackStart /\ [][ListenerNext]_vars

\* two request coroutines and the monitor task of user 1 interleave at their
\* suspension points: concurrent activate and deactivate calls
FallbackConcInit ==
    /\ users = [u \in FUsers |-> UserRow0]
    /\ fsessions = << >>
    /\ listeners = << >>
    /\ ltask = [sid \in SessionIds |-> "none"]
    /\ checks = [u \in FUsers |-> << >>]
    /\ smsSent = 0
    /\ registered = {}
    /\ fp = [p \in Procs |-> IF p \in Reqs THEN FIdle ELSE FOff]
    /\ lastAct = [u \in FUsers |-> NoCall]
    /\ fcalls = 0
    /\ probes = 0

ConcSettings ==
    {st \in SettingsInputs : /\ st.auto \in {"unset", "yes"}
                             /\ st.phone = "p1"
                             /\ st.verified = "yes"}

FallbackConcNext ==
    \/ \E p \in Reqs, st \in ConcSettings : UpdateFallbackSettings(p, 1, st)
    \/ \E p \in Reqs : ActivateFallback(p, 1, None)
    \/ \E p \in Procs : ActivateRegistered(p)
    \/ \E p \in Procs : ActivateNotified(p)
    \/ \E p \in Reqs : DeactivateFallback(p, 1)
    \/ \E p \in Reqs : DeactivateNotified(p)
    \/ \E h \in BOOLEAN : MonitorProbe(1, h)
    \/ \E p \in Reqs : FReturn(p)

FallbackConcStart == StreamIdle /\ FallbackConcInit /\ HandlersInit

SpecFallbackConc == FallbackConcStart /\ [][FallbackConcNext]_vars

\* The NetworkHealthMonitor alone: outcomes are recorded for both users in
\* any order, MaxFed of them in all.
MaxFed == 12

RecordCheck(u, is_healthy) ==
    /\ Len(fed[1]) + Len(fed[2]) < MaxFed
    /\ checks' = [checks EXCEPT ![u] = RecordNetworkCheck(@, is_healthy)]
    /\ fed' = [fed EXCEPT ![u] = Append(@, is_healthy)]
    /\ UNCHANGED <<users, fsessions, listeners, ltask, smsSent, registered,
                   fp, lastAct, fcalls, probes>>
    /\ UNCHANGED svars
    /\ UNCHANGED <<edit, lpos, fmsgs, smsIn, rt, delivered, dec>>

MonitorNext == \E u \in FUsers, h \in BOOLEAN : RecordCheck(u, h)

MonitorStart == StreamIdle /\ FallbackInit /\ HandlersInit

SpecMonitor == MonitorStart /\ [][MonitorNext]_vars

\* POST /chat/send-stream in slot 1, by either user, with or without a chat
\* id; slot 2 serves a POST /chats that may create the chat beforehand
RouterInit ==
    /\ StreamInitCommon
    /\ inv = [i \in Inv |-> Idle]
    /\ evBudget = MaxRouterEvents

RouterStart == RouterInit /\ FallbackInit /\ HandlersInit

RouterNext ==
    \/ \E i \in Inv, u \in Users, t \in {Empty, <<"q1">>}, w \in BOOLEAN :
           RouterSendStream(i, u, t, w)
    \/ \E u \in Users : CreateChat(2, u)
    \/ \E i \in Inv, ok \in BOOLEAN : CreateChatReturn(i, ok)
    \/ \E i \in Inv : RouterCreated(i)
    \/ \E i \in Inv : StreamGeneratorStart(i)
    \/ \E i \in Inv, ok \in BOOLEAN : EnsureAgentChatReturn(i, ok)
    \/ \E i \in Inv, ev \in UpstreamEvents, ok \in BOOLEAN :
           HandleEvent(i, ev, ok)
    \/ \E i \in Inv, k \in TransportFailures, ok \in BOOLEAN :
           TransportFailure(i, k, ok)
    \/ \E i \in Inv : FinishStream(i)
    \/ \E i \in Inv, raises \in BOOLEAN : RouterForward(i, raises)
    \/ \E i \in Inv : RouterEnd(i)

SpecRouter == RouterStart /\ [][RouterNext]_vars

\* The listeners of user 2 under the scheduling of the event loop: the user
\* activates and deactivates again and again (the first session's key does
\* not end with the user id, the second one's does); a task that can run is
\* run, and every receive_sms call and sleep returns.
LiveSms == {NoSms, [phone |-> "p1", text |-> <<"q1">>]}
LiveSettings == {st \in ListenerSettings : st.phone = "p1"}

ListenerLiveNext ==
    \/ \E p \in Reqs, st \in LiveSettings : UpdateFallbackSettings(p, 2, st)
    \/ \E p \in Reqs : ActivateFallback(p, 2, None)
    \/ \E p \in Procs : ActivateRegistered(p)
    \/ \E p \in Procs : ActivateNotified(p)
    \/ \E p \in Reqs : DeactivateFallback(p, 2)
    \/ \E p \in Reqs : DeactivateNotified(p)
    \/ \E p \in Reqs : FReturn(p)
    \/ \E sid \in SessionIds : ListenerCheck(sid)
    \/ \E sid \in SessionIds, sms \in LiveSms : ListenerReceive(sid, sms)

ListenerFairness ==
    \A sid \in SessionIds :
        /\ WF_vars(ListenerCheck(sid))
        /\ WF_vars(\E sms \in LiveSms : ListenerReceive(sid, sms))

SpecListenerLive ==
    FallbackStart /\ [][ListenerLiveNext]_vars /\ ListenerFairness

\* two POST /chat/send-stream requests of user 1 with different or equal
\* texts in flight on the same chat; the upstream delivers nothing
DedupeStart ==
    /\ StreamInitCommon
    /\ inv = [i \in Inv |-> Idle]
    /\ evBudget = 0
    /\ FallbackInit
    /\ edit = NoEdit
    /\ lpos = [sid \in SessionIds |-> "top"]
    /\ fmsgs = << >>
    /\ smsIn = 0
    /\ fed = [u \in FUsers |-> << >>]
    /\ rt = [i \in Inv |-> RouteIdle]
    /\ delivered = << >>
    /\ dec = NoDecode

DedupeNext ==
    \/ \E i \in Inv, t \in Texts, w \in BOOLEAN : RouterSendStream(i, 1, t, w)
    \/ \E i \in Inv, ok \in BOOLEAN : CreateChatReturn(i, ok)
    \/ \E i \in Inv : RouterCreated(i)
    \/ \E i \in Inv : StreamGeneratorStart(i)
    \/ \E i \in Inv, ok \in BOOLEAN : EnsureAgentChatReturn(i, ok)
    \/ \E i \in Inv : FinishStream(i)
    \/ \E i \in Inv, raises \in BOOLEAN : RouterForward(i, raises)
    \/ \E i \in Inv : RouterEnd(i)

SpecDedupe == DedupeStart /\ [][DedupeNext]_vars

\* One send_message_stream on a chat that create_chat linked to its agent
\* chat, against an upstream that keeps sending "thinking" events.
MaxCapEvents == 1002    \* upstream events the agent has ready in one run

CapInit ==
    /\ chat = [exists |-> TRUE, owner |-> 1, agent |-> 1]
    /\ messages = << >>
    /\ steps = << >>
    /\ remoteChats = 1
    /\ nextMsgId = 1
    /\ files = 0
    /\ calls = 0
    /\ faults = 0
    /\ inv = [i \in Inv |-> IF i = 1 THEN Idle ELSE Off]
    /\ evBudget = MaxCapEvents

CapStart == CapInit /\ FallbackInit /\ HandlersInit

CapNext ==
    \/ \E i \in Inv : SendMessageStream(i, 1, <<"q1">>)
    \/ \E i \in Inv : HandleEvent(i, Ev("thinking", Empty, FALSE), TRUE)
    \/ \E i \in Inv : FinishStream(i)

SpecCap == CapStart /\ [][CapNext]_vars

\* one send_message_stream whose caller may go away at any suspension point
CancelNext ==
    \/ \E i \in Inv, u \in Users : SendMessageStream(i, u, <<"q1">>)
    \/ \E i \in Inv, ok \in BOOLEAN : EnsureAgentChatReturn(i, ok)
    \/ \E i \in Inv, ev \in UpstreamEvents, ok \in BOOLEAN :
           HandleEvent(i, ev, ok)
    \/ \E i \in Inv, k \in TransportFailures, ok \in BOOLEAN :
           TransportFailure(i, k, ok)
    \/ \E i \in Inv : FinishStream(i)
    \/ \E i \in Inv : Cancel(i)
    \/ \E i \in Inv : CreateChat(i, 1)
    \/ \E i \in Inv, ok \in BOOLEAN : CreateChatReturn(i, ok)
    \/ \E i \in Inv : Return(i)

SpecCancel == StreamStart /\ [][CancelNext]_vars

\* every response body of up to MaxLines payloads, in both wire shapes
RECURSIVE Bodies(_)
Bodies(n) ==
    IF n = 0 THEN {<< >>}
    ELSE Bodies(n - 1)
         \cup {Append(b, x) : b \in {c \in Bodies(n - 1) : Len(c) = n - 1},
                              x \in Payloads}

DecodeNext ==
    \E items \in Bodies(MaxLines), wire \in {"ndjson", "sse"} :
        StreamMessage(items, wire)

SpecDecode == StreamStart /\ [][DecodeNext]_vars

\* Editing SMS conversations: the users write by SMS into their fallback
\* chats and send edit requests for any message id.
EditTexts == {<<"x">>, <<"y">>}

EditStart == StreamIdle /\ FallbackInit /\ HandlersInit

EditNext ==
    \/ \E p \in Reqs, u \in FUsers, st \in {x \in ListenerSettings : x.phone = "p1"} :
           UpdateFallbackSettings(p, u, st)
    \/ \E p \in Reqs, u \in FUsers : ActivateFallback(p, u, None)
    \/ \E p \in Procs : ActivateRegistered(p)
    \/ \E p \in Procs : ActivateNotified(p)
    \/ \E p \in Reqs : FReturn(p)
    \/ \E sid \in SessionIds : ListenerCheck(sid)
    \/ \E sid \in SessionIds, sms \in {x \in SmsInputs : x.phone = "p1"} :
           ListenerReceive(sid, sms)
    \/ \E mid \in MessageIds, caller \in Users, content \in EditTexts,
          commitOk \in BOOLEAN : EditMessage(mid, caller, content, commitOk)

SpecEdit == EditStart /\ [][EditNext]_vars

\* Editing agent conversations: user 1 talks to the agent in chat ChatId (an
\* upstream that delivers no event); both users send edit requests.
EditChatInit ==
    /\ StreamInitCommon
    /\ inv = [i \in Inv |-> IF i = 1 THEN Idle ELSE Off]
    /\ evBudget = 0

EditChatStart == EditChatInit /\ FallbackInit /\ HandlersInit

EditChatNext ==
    \/ \E i \in Inv : CreateChat(i, 1)
    \/ \E i \in Inv, ok \in BOOLEAN : CreateChatReturn(i, ok)
    \/ \E i \in Inv : Return(i)
    \/ \E i \in Inv : SendMessageStream(i, 1, <<"q1">>)
    \/ \E i \in Inv, ok \in BOOLEAN : EnsureAgentChatReturn(i, ok)
    \/ \E i \in Inv : FinishStream(i)
    \/ \E mid \in MessageIds, caller \in Users, content \in EditTexts,
          commitOk \in BOOLEAN : EditMessage(mid, caller, content, commitOk)

SpecEditChat == EditChatStart /\ [][EditChatNext]_vars

\* User 1 owns the chat; user 2 has a verified phone, activates the SMS
\* fallback with or without a chat_id and writes by SMS.
RelayChatIds == {None, ChatId}

RelayNext ==
    \/ \E i \in Inv : CreateChat(i, 1)
    \/ \E i \in Inv, ok \in BOOLEAN : CreateChatReturn(i, ok)
    \/ \E p \in Reqs, st \in LiveSettings : UpdateFallbackSettings(p, 2, st)
    \/ \E p \in Reqs, c \in RelayChatIds : ActivateFallback(p, 2, c)
    \/ \E p \in Procs : ActivateRegistered(p)
    \/ \E p \in Procs : ActivateNotified(p)
    \/ \E p \in Reqs : FReturn(p)
    \/ \E sid \in SessionIds : ListenerCheck(sid)
    \/ \E sid \in SessionIds, sms \in LiveSms : ListenerReceive(sid, sms)

SpecRelay == EditChatStart /\ [][RelayNext]_vars

\* ================================================================ claims
\* what one send_message_stream invocation yielded (an upload yields its
\* file_uploaded event first)
SendOut(i) == SubSeq(inv[i].out, inv[i].base + 1, Len(inv[i].out))

NumOfType(seq, t) == Cardinality({k \in 1..Len(seq) : seq[k].type = t})

\* the invocation ran to completion: its generator is exhausted and the last
\* event it yielded is its own end event
Completed(i) ==
    /\ inv[i].pc = "done"
    /\ inv[i].asst # None
    /\ SendOut(i) # << >>
    /\ SendOut(i)[Len(SendOut(i))].type = "end"

\* the ReasoningStep rows of one message, in insertion order
RowsOf(m) == SelectSeq(steps, LAMBDA r : r.msg = m)

\* C1: for every send_message_stream invocation that ran to completion, the
\* final_content of its end event equals the persisted content of its
\* assistant message.
C1_FinalContentIsPersisted ==
    \A i \in Inv :
        Completed(i) =>
            SendOut(i)[Len(SendOut(i))].val = ContentOf(messages, inv[i].asst)

\* C2: every finished send_message_stream invocation has emitted exactly one
\* event of type end, and that event is the last one it emitted.
C2_ExactlyOneEndLast ==
    \A i \in Inv :
        (inv[i].pc = "done" /\ inv[i].op = "send") =>
            /\ NumOfType(SendOut(i), "end") = 1
            /\ SendOut(i)[Len(SendOut(i))].type = "end"

\* C3 (as stated): the step_order values of the rows of one message are
\* 1, 2, ..., n in insertion order, whatever the upstream sends and also
\* when an insert failed and was swallowed.
C3_NoGaps ==
    \A m \in 1..(nextMsgId - 1) :
        \A k \in 1..Len(RowsOf(m)) : RowsOf(m)[k].order = k

\* C3 (amended): the step_order values of the rows of one message are
\* strictly increasing; each row carries the 1-based position of its event
\* among the events its invocation received; the values not present are
\* exactly those of the failed inserts, so without a failed insert they are
\* 1, 2, ..., n.
C3_OrderIsPosition ==
    /\ \A m \in 1..(nextMsgId - 1) :
          \A k \in 1..Len(RowsOf(m)) :
              /\ RowsOf(m)[k].order >= k
              /\ k > 1 => RowsOf(m)[k - 1].order < RowsOf(m)[k].order
    /\ \A i \in Inv :
          inv[i].asst # None =>
              LET rows == RowsOf(inv[i].asst) IN
              /\ \A k \in 1..Len(rows) :
                    /\ rows[k].order \in 1..Len(inv[i].recv)
                    /\ rows[k].type = inv[i].recv[rows[k].order].type
              /\ Len(rows) + inv[i].lost = Len(inv[i].recv)
              /\ inv[i].lost = 0 =>
                    \A k \in 1..Len(rows) : rows[k].order = k

\* C3 witness: an invocation lost one insert and persisted later rows
C3_Witness ==
    \E i \in Inv :
        /\ inv[i].asst # None
        /\ inv[i].lost = 1
        /\ Len(RowsOf(inv[i].asst)) >= 2
        /\ RowsOf(inv[i].asst)[Len(RowsOf(inv[i].asst))].order = 3

\* the value of the last non-empty response event an invocation received
HasResponse(i) ==
    \E k \in 1..Len(inv[i].recv) :
        inv[i].recv[k].type = "response" /\ inv[i].recv[k].val # Empty

LastResponse(i) ==
    LET k == CHOOSE j \in 1..Len(inv[i].recv) :
                /\ inv[i].recv[j].type = "response"
                /\ inv[i].recv[j].val # Empty
                /\ \A l \in (j + 1)..Len(inv[i].recv) :
                      ~(inv[i].recv[l].type = "response"
                        /\ inv[i].recv[l].val # Empty)
    IN  inv[i].recv[k].val

\* C4: when the upstream sequence contains a non-empty response event, the
\* final assistant content of the completed invocation is exactly the
\* response value.
C4_ResponseWins ==
    \A i \in Inv :
        (Completed(i) /\ HasResponse(i)) =>
            ContentOf(messages, inv[i].asst) = LastResponse(i)

\* the transport timed out before any upstream event was delivered
TimedOutFirst(i) ==
    /\ inv[i].fail = "timeout"
    /\ inv[i].recv # << >>
    /\ inv[i].recv[1] = SyntheticError("timeout")

\* C5: when the transport times out before any event, the invocation
\* forwards exactly one error event, then exactly one end event, and the
\* assistant content is the apology template followed by the error text.
C5_TimeoutErrorThenEnd ==
    \A i \in Inv :
        TimedOutFirst(i) =>
            /\ ContentOf(messages, inv[i].asst) = ApologyPrefix \o TimeoutText
            /\ inv[i].pc = "stream" =>
                  SendOut(i) = <<Out("error", TimeoutText)>>
            /\ inv[i].pc = "done" =>
                  /\ Len(SendOut(i)) = 2
                  /\ SendOut(i)[1] = Out("error", TimeoutText)
                  /\ SendOut(i)[2].type = "end"
            /\ inv[i].pc \in {"stream", "done"}

\* C6: when the remote agent-chat creation fails, send_message_stream emits
\* one error event followed by an end event, never opens the ask stream and
\* creates no message or reasoning step.
C6_EnsureFailureErrorThenEnd ==
    \A i \in Inv :
        (inv[i].pc = "done" /\ SendOut(i) # << >> /\ SendOut(i)[1] = EnsureError) =>
            /\ Len(SendOut(i)) = 2
            /\ SendOut(i)[2].type = "end"
            /\ ~inv[i].opened
            /\ inv[i].asst = None

\* C7: an agent_chat_id that is set never changes.
C7_AgentChatIdStable ==
    [][chat.agent # None => chat'.agent = chat.agent]_vars

\* C8: an activate_fallback call that follows directly on one that returned
\* a session returns the same session, and a user never has two sessions
\* with is_active = true.
C8_SecondActivateSameSession ==
    /\ \A p \in Procs :
          (fp[p].ret # NoCall /\ fp[p].prior >= 1) => fp[p].ret = fp[p].prior
    /\ \A u \in FUsers : Cardinality(ActiveSessions(u)) <= 1

\* C8 witness: a second call in a row has returned the first call's session
C8_Witness ==
    \E p \in Reqs :
        /\ fp[p].op = "activate"
        /\ fp[p].pc = "done"
        /\ fp[p].prior >= 1
        /\ fp[p].ret = fp[p].prior
        /\ fsessions[fp[p].ret].active

C10_ActiveMirrorsSession ==
    (\A p \in Procs : fp[p].pc \in {"idle", "done", "probe", "off"}) =>
        \A u \in FUsers : users[u].active <=> (ActiveSessions(u) # {})

\* the row with this id, if the table has it
RowOf(msgs, id) == msgs[CHOOSE k \in 1..Len(msgs) : msgs[k].id = id]

\* C11: a successful edit of a user message created at time T deletes
\* exactly the messages of the same chat with created_at > T (the edited
\* message and all other messages survive), and after any number of edits
\* original_content is the content the message had before its first edit.
C11_EditCascadeKeepsOriginal ==
    [][(edit'.n # edit.n /\ edit'.status = 200) =>
          LET m == RowOf(messages, edit'.id) IN
          /\ \A k \in 1..Len(messages) :
                HasMessage(messages', messages[k].id)
                   <=> ~(messages[k].chat = m.chat /\ messages[k].at > m.at)
          /\ \A k \in 1..Len(messages') :
                messages'[k].edited => messages'[k].original = messages'[k].c0
      ]_vars

\* C12: an edit request whose message does not exist, is not owned by the
\* caller or does not have role "user" is answered 404 and changes no
\* message.
C12_EditMissingIs404 ==
    [][(edit'.n # edit.n /\ ~edit'.found) =>
          (edit'.status = 404 /\ messages' = messages)]_vars

\* C15: a settings update that leaves the user's fallback phone different
\* from its value before the call leaves the phone unverified, whatever the
\* previous phone and the other fields of the request.
C15_PhoneChangeResetsVerification ==
    [][\A u \in FUsers :
          users'[u].phone # users[u].phone => ~users'[u].verified]_vars

\* C18: deactivate_fallback reports failure only when it changed nothing:
\* a call that answers False leaves the user rows and the session rows as
\* they were before the call, whatever keys the listener table holds.
C18_FailureMeansUnchanged ==
    [][\A p \in Reqs :
          (fp[p].pc = "idle" /\ fp'[p].op = "deactivate" /\ fp'[p].ok = "no")
             => (users' = users /\ fsessions' = fsessions)]_vars

\* C19: once deactivate_fallback has returned for a user with an active
\* session, that session's listener task is cancelled and its key is gone
\* from the listener table, for every user id and session id.
C19_DeactivateCancelsListener ==
    \A p \in Reqs :
        (fp[p].op = "deactivate" /\ fp[p].pc = "done" /\ fp[p].sess # NoSession)
           => /\ ltask[fp[p].sess] # "running"
              /\ ~InTable(SmsKey(fp[p].sess))

\* C20: no inbound SMS is stored for a session that is inactive when the
\* row is written.
C20_NoRelayAfterDeactivate ==
    \A k \in 1..Len(fmsgs) : fmsgs[k].active

\* the outcomes of user u that count: the last n ever recorded
Recent(u, n) ==
    {k \in 1..Len(fed[u]) : k > Len(fed[u]) - n}

Healthy(u, n) == Cardinality({k \in Recent(u, n) : fed[u][k]})

C14_LastFrameIsEnd ==
    \A i \in Inv :
        (rt[i].pc = "closed" /\ rt[i].status = 200) =>
            /\ rt[i].frames # << >>
            /\ rt[i].frames[Len(rt[i].frames)].type = "end"
            /\ rt[i].frames[Len(rt[i].frames)].chat_id = Str(ChatId)

\* a response closed by the except branch after an error event was forwarded
C14_Witness ==
    \E i \in Inv :
        /\ rt[i].pc = "closed"
        /\ rt[i].raised
        /\ NumOfType(rt[i].frames, "error") = 2

\* the events of r that stream_message made up for a failure of the request
Synthetic(r) ==
    {k \in 1..Len(r) :
        /\ r[k].type = "error"
        /\ r[k].val \in {TimeoutText, NetworkText, UnexpectedText}}

\* C16: a timeout, an HTTP/transport error or any other exception during
\* the request reaches the caller of stream_message as exactly one synthetic
\* event of type error, and that event is the last one of the sequence.
C16_FailureIsOneLastErrorEvent ==
    \A i \in Inv :
        inv[i].fail # "none" =>
            /\ Synthetic(inv[i].recv) = {Len(inv[i].recv)}
            /\ inv[i].recv[Len(inv[i].recv)].val =
                  (CASE inv[i].fail = "timeout" -> TimeoutText
                     [] inv[i].fail = "http" -> NetworkText
                     [] inv[i].fail = "other" -> UnexpectedText)

\* an unexpected exception after two upstream events were delivered
C16_Witness ==
    \E i \in Inv :
        /\ inv[i].fail = "other"
        /\ Len(inv[i].recv) = 3
        /\ inv[i].recv[1].type = "response_chunk"

\* C17: under every interleaving of concurrent activate calls (requests and
\* the monitor task) and deactivate calls, a user has at most one
\* FallbackSession with is_active = true.
C17_AtMostOneActiveSession ==
    \A u \in FUsers : Cardinality(ActiveSessions(u)) <= 1

\* two activate calls of one user are suspended at once, the session of the
\* older one already deactivated
C17_Witness ==
    \E p, q \in Procs :
        /\ p # q
        /\ fp[p].user = fp[q].user
        /\ fp[p].pc \in {"act_register", "act_send"}
        /\ fp[q].pc \in {"act_register", "act_send"}
        /\ Cardinality(ActiveSessions(fp[p].user)) = 1

\* C21: an inbound SMS handed out by the gateway whose phone number is the
\* phone number of an active session is stored as a user ChatMessage of a
\* session with that phone number; it is not taken by the listener of
\* another session and dropped.
C21_InboundReachesItsSession ==
    [][Len(delivered') > Len(delivered) =>
          LET sms == delivered'[Len(delivered')]
              owners == {sid \in 1..Len(fsessions) :
                            /\ fsessions[sid].active
                            /\ ltask[sid] = "running"
                            /\ fsessions[sid].phone = sms.phone}
          IN  owners # {} =>
                 /\ Len(messages') = Len(messages) + 1
                 /\ messages'[Len(messages')].content = sms.text
                 /\ \E sid \in owners :
                       messages'[Len(messages')].chat = fsessions'[sid].chat
      ]_vars

\* C22: once a session is inactive, its listener task terminates (it leaves
\* its loop, or was cancelled), also when no cancellation reaches it,
\* provided every receive call and every sleep returns.
C22_ListenerEventuallyStops ==
    \A sid \in SessionIds :
        (sid <= Len(fsessions) /\ ~fsessions[sid].active
                               /\ ltask[sid] = "running")
           ~> (lpos[sid] = "ended" \/ ltask[sid] # "running")

\* a listener that was never cancelled has left its loop after the
\* deactivation of its session
C22_Witness ==
    \E sid \in SessionIds :
        /\ sid <= Len(fsessions)
        /\ ~fsessions[sid].active
        /\ ltask[sid] = "running"
        /\ lpos[sid] = "ended"

\* the user messages of the chat, oldest first
UserMessages(msgs) ==
    SelectSeq(msgs, LAMBDA row : row.chat = ChatId /\ row.role = "user")

\* C23: when send_message_stream begins its turn, it inserts a new user
\* message unless the most recent user message of the chat has the incoming
\* text, and in that case it inserts none.
C23_ReuseOnlyMostRecent ==
    [][\A i \in Inv :
          (inv[i].asst = None /\ inv'[i].asst # None) =>
             LET um == UserMessages(messages)
                 recentSame == /\ um # << >>
                               /\ um[Len(um)].content = inv'[i].text
                 inserted == \E k \in 1..Len(messages') :
                                /\ messages'[k].role = "user"
                                /\ ~HasMessage(messages, messages'[k].id)
             IN  inserted <=> ~recentSame]_vars


\* C24: one invocation records and forwards at most SafetyLimit upstream
\* events: no more than SafetyLimit events are taken from the upstream,
\* no more than SafetyLimit reasoning steps are stored, and no more than
\* SafetyLimit events precede the end event on the output.
C24_AtMostLimitEvents ==
    \A i \in Inv :
        /\ Len(inv[i].recv) <= SafetyLimit
        /\ Len(SelectSeq(steps, LAMBDA row : row.msg = inv[i].asst)) <= SafetyLimit
        /\ Len(SelectSeq(inv[i].out, LAMBDA o : o.type # "end")) <= SafetyLimit


\* C26: the verified flag of a user's fallback phone goes from false to
\* true only in a verification step (verify-phone with a matching token);
\* no settings update turns it on.
C26_VerifiedOnlyByVerification ==
    [][\A u \in FUsers :
          (~users[u].verified /\ users'[u].verified) =>
             \E p \in Reqs : /\ fp[p].pc = "idle"
                             /\ fp'[p].op = "verify"
                             /\ fp'[p].user = u]_vars


\* the owner of a chat: the chat the requests address, or the fallback chat
\* process_incoming_sms created for a session
ChatOwner(c) == IF c = ChatId THEN chat.owner ELSE fsessions[c - ChatId].user

\* C25: the user_id of every chat message is the user_id of the chat it
\* belongs to, the messages process_incoming_sms stores included, whatever
\* chat_id the session was activated with.
C25_MessageUserOwnsChat ==
    \A k \in 1..Len(messages) : messages[k].user = ChatOwner(messages[k].chat)


\* C27: a reasoning step that cannot be stored does not end the invocation.
\* Whenever the insert for an event fails (other than for a chunk without
\* content, which fails on its own), the event is still dispatched: it is
\* forwarded, the assistant content is written as for any event, and the
\* loop goes on without a top-level error.
C27_PersistFailureIsNotFatal ==
    [][\A i \in Inv :
          inv'[i].lost > inv[i].lost =>
             LET ev == inv'[i].recv[Len(inv'[i].recv)]
                 acc2 == AccAfter(inv[i].acc, ev)
             IN  ~(ev.type = "response_chunk" /\ ev.null) =>
                    /\ inv'[i].pc = "stream"
                    /\ inv'[i].out = Append(inv[i].out, Forwarded(ev))
                    /\ ContentOf(messages', inv[i].asst) =
                          ContentAfter(ContentOf(messages, inv[i].asst),
                                       acc2, ev)]_vars


\* the event the generator is suspended on carries answer text
AnswerForwarded(loc) ==
    /\ loc.out # << >>
    /\ loc.out[Len(loc.out)].type \in {"response_chunk", "response"}

RECURSIVE UpToResponse(_)
UpToResponse(events) ==
    IF events = << >> THEN << >>
    ELSE IF Head(events).type = "response" THEN <<Head(events)>>
    ELSE <<Head(events)>> \o UpToResponse(Tail(events))

\* C29: for the same payloads, stream_message yields the same events from
\* a newline-delimited JSON body as from a "data: " body closed by
\* "data: [DONE]": lines that are not JSON are skipped in both, and the
\* events of the NDJSON body are those of the SSE body up to and including
\* the first response event.
C29_SameEventsBothWires ==
    dec.wire # "none" =>
       /\ dec.wire = "ndjson" =>
             dec.out = UpToResponse(DecodeSse(EncodeSse(dec.items)))
       /\ dec.wire = "sse" =>
             UpToResponse(dec.out) = DecodeNdjson(EncodeNdjson(dec.items))

\* C29 witness: an NDJSON body with a line that is not JSON, then an event,
\* then a response
C29_Witness ==
    /\ dec.wire = "ndjson"
    /\ Len(dec.items) = 3
    /\ dec.items[1].kind = "garbage"
    /\ dec.items[3].type = "response"
    /\ Len(dec.out) = 2


\* C30: while an invocation is in progress, its assistant row is written or
\* deleted by the invocation's own steps only: a step of any other request
\* on the chat leaves the row in place with its content.
C30_OnlyOwnerTouchesPlaceholder ==
    [][\A i \in Inv :
          (/\ inv[i].pc = "stream"
           /\ HasMessage(messages, inv[i].asst)
           /\ inv'[i] = inv[i]) =>
             /\ HasMessage(messages', inv[i].asst)
             /\ ContentOf(messages', inv[i].asst) =
                   ContentOf(messages, inv[i].asst)]_vars

====
